---- MODULE Spec2Model ----
(***************************************************************************)
(* Resumable batch corpus-processing pipeline of Repo-clones:              *)
(*   clone_github.py        the clone runner and its clone_status.csv      *)
(*   count_repo_token.py    the repo token-count runner                    *)
(*   Pdfs/pdf_download.py   the document-download runner                   *)
(*   Pdfs/pdf_text_token.py the PDF text/token pipeline                    *)
(* One behaviour follows one runner (variable runner) over a sequence of   *)
(* process runs on a filesystem that persists between the runs.  A process *)
(* can be killed at any step; what it held in memory is then gone and what *)
(* it had written to disk stays.                                           *)
(***************************************************************************)
EXTENDS Integers, Sequences, FiniteSets, TLC

\* ------------------------------------------------------------------ bounds
MaxUnits == 2      \* rows of an input manifest / directories of a corpus
MaxRuns == 2       \* process runs in one behaviour
MaxCountRuns == 3  \* runs of the token-count runner in one behaviour
MaxLimit == 1      \* largest integer CLI limit tried

\* ------------------------------------------------------------- generic
Min(a, b) == IF a < b THEN a ELSE b
Max(a, b) == IF a > b THEN a ELSE b

SeqsUpTo(S, n) == UNION {[1..k -> S] : k \in 0..n}

Range(s) == {s[i] : i \in 1..Len(s)}

\* The CLI argument: the literal "all", an integer, or anything else.
Args ==
    {[kind |-> "all", n |-> 0], [kind |-> "bad", n |-> 0]}
        \cup {[kind |-> "int", n |-> k] : k \in (0 - 1)..MaxLimit}

\* df.head(n) / pending_repos[:n]: the first n, or all but the last -n.
head(s, n) ==
    IF n >= 0 THEN SubSeq(s, 1, Min(n, Len(s)))
    ELSE SubSeq(s, 1, Max(Len(s) + n, 0))

\* ====================================================== clone_github.py
\* The url column as the manifest can hold it.  pandas keeps surrounding
\* blanks of a field; main strips the url before it uses it.
RawUrls ==
    {"https://github.com/a/x", "https://github.com/b/x",
     "https://github.com/a/y ", "http://example.org/z"}

\* str(row["url"]).strip()
strip(u) ==
    CASE u = "https://github.com/a/y " -> "https://github.com/a/y"
      [] u = "http://d/a.pdf " -> "http://d/a.pdf"
      [] u = " " -> ""
      [] OTHER -> u

Urls == {strip(u) : u \in RawUrls}

\* url.startswith("https://github.com")
startswith_github(u) == u # "http://example.org/z"

\* url.rstrip("/").split("/")[-1]
repo_name(u) ==
    CASE u = "https://github.com/a/x" -> "x"
      [] u = "https://github.com/b/x" -> "x"
      [] u = "https://github.com/a/y" -> "y"
      [] OTHER -> "z"

\* df["type"].str.lower()
lower(t) == IF t = "GitHub" THEN "github" ELSE t

ManifestRows ==
    {[url |-> "https://github.com/a/x", type |-> "github"],
     [url |-> "https://github.com/b/x", type |-> "GitHub"],
     [url |-> "https://github.com/a/y ", type |-> "github"],
     [url |-> "http://example.org/z", type |-> "github"],
     [url |-> "https://github.com/a/x", type |-> "pdf"]}

\* reportv2.csv: missing, or an ordered list of rows
Manifests ==
    {[exists |-> FALSE, rows |-> <<>>]}
        \cup {[exists |-> TRUE, rows |-> r] : r \in SeqsUpTo(ManifestRows, MaxUnits)}

NoFile == [state |-> "absent", rows |-> <<>>]
\* a file opened for writing and not yet written: zero bytes, no header
EmptyFile == [state |-> "empty", rows |-> <<>>]
CsvFile(rows) == [state |-> "ok", rows |-> rows]
\* a file that was zero bytes when the first row was appended: its first
\* line is a data row, which csv.DictReader takes for the header
HeaderlessFile(rows) == [state |-> "headerless", rows |-> rows]

\* the status column the left merge on url gives a manifest row
merged_status(status_rows, url) ==
    IF \E i \in 1..Len(status_rows) : status_rows[i].url = url
    THEN status_rows[CHOOSE i \in 1..Len(status_rows) : status_rows[i].url = url].status
    ELSE "NaN"

\* df[df["status"].isna() | (df["status"] != "success")]
not_yet_cloned_bug(st) == st # "exists"
not_yet_cloned(st) == st # "success"

\* load_data, once both files are read: the github rows not yet cloned
load_data(rows, status_rows) ==
    LET gh == SelectSeq(rows, LAMBDA r : lower(r.type) = "github")
    IN  SelectSeq(gh, LAMBDA r : not_yet_cloned(merged_status(status_rows, r.url)))

\* update_status: drop the url's rows, append the new one
update_status_keep(status_rows, url, status) ==
    status_rows \o <<[url |-> url, status |-> status]>>
update_status(status_rows, url, status) ==
    SelectSeq(status_rows, LAMBDA r : r.url # url)
        \o <<[url |-> url, status |-> status]>>

\* clone_repo once the subprocess has ended: subprocess.run returned
\* ("ok"), raised CalledProcessError ("nonzero"), raised TimeoutExpired
\* ("timeout") or raised anything else ("error")
clone_repo(ended) ==
    CASE ended = "ok" -> "success"
      [] ended = "timeout" -> "timeout"
      [] OTHER -> "failed"

SubprocessEnds == {"ok", "nonzero", "timeout", "error"}

\* =================================================== count_repo_token.py
\* Sizes are counted in units of 50 MB and the batch file limit is scaled
\* down with them: the source sets 100 (MB), 100 (MB) and 250 (files).
MAX_FILE_SIZE_MB == 2
MAX_BATCH_SIZE_MB == 2
BATCH_FILE_LIMIT == 2
MaxFiles == 3      \* files os.walk finds in one repository

\* What is_valid_file reads of a path: the extension class ("deny" for
\* EXCLUDE_EXTENSIONS, "allow" for INCLUDE_EXTENSIONS, "other"), whether a
\* path segment starts with a dot, the size (stat_ok FALSE: os.path.getsize
\* raises), and whether mimetypes guesses text, json, xml or yaml.
File(name, ext, hidden, size, stat_ok, mime_text) ==
    [name |-> name, ext |-> ext, hidden |-> hidden, size |-> size,
     stat_ok |-> stat_ok, mime_text |-> mime_text]

WalkFiles ==
    {File("a.py", "allow", FALSE, sz, TRUE, TRUE) : sz \in 0..(MAX_FILE_SIZE_MB + 1)}
        \cup {File("b.bin", "deny", FALSE, 1, TRUE, FALSE),
              File(".git/config", "other", TRUE, 0, TRUE, FALSE),
              File(".github/ci.yml", "allow", TRUE, 0, TRUE, TRUE),
              File("page.xhtml", "other", FALSE, 1, TRUE, TRUE),
              File("blob.dat", "other", FALSE, 0, TRUE, FALSE),
              File("dangling.py", "allow", FALSE, 0, FALSE, TRUE)}

\* is_valid_file: TRUE, FALSE, or "raise" when os.path.getsize raises
is_valid_file_allow_first(f) ==
    IF f.ext = "deny" THEN "False"
    ELSE IF f.hidden THEN "False"
    ELSE IF f.ext = "allow" THEN "True"
    ELSE IF ~f.stat_ok THEN "raise"
    ELSE IF f.size > MAX_FILE_SIZE_MB THEN "False"
    ELSE IF f.mime_text THEN "True"
    ELSE "False"
is_valid_file(f) ==
    IF f.ext = "deny" THEN "False"
    ELSE IF f.hidden THEN "False"
    ELSE IF ~f.stat_ok THEN "raise"
    ELSE IF f.size > MAX_FILE_SIZE_MB THEN "False"
    ELSE IF f.ext = "allow" THEN "True"
    ELSE IF f.mime_text THEN "True"
    ELSE "False"

\* collect_valid_files over the files os.walk yields
collect_valid_files(walk) == SelectSeq(walk, LAMBDA f : is_valid_file(f) = "True")

\* len(tokenizer.encode(text)) of a text the tokenizer accepts: the
\* tokenizer is opaque; here a file of size s holds s + 1 tokens and each
\* "\n\n" separator is one more
RECURSIVE content_tokens(_, _)
content_tokens(files, batch) ==
    IF batch = <<>> THEN 0
    ELSE files[Head(batch)].size + 1 + content_tokens(files, Tail(batch))

encode_len(files, batch) == content_tokens(files, batch) + (Len(batch) - 1)

\* the locals of count_tokens_chunked
ChunkInit == [current_batch |-> <<>>, current_batch_size |-> 0, total_tokens |-> 0]

flush_due_late(st) ==
    \/ Len(st.current_batch) > BATCH_FILE_LIMIT
    \/ st.current_batch_size >= MAX_BATCH_SIZE_MB
flush_due(st) ==
    \/ Len(st.current_batch) >= BATCH_FILE_LIMIT
    \/ st.current_batch_size >= MAX_BATCH_SIZE_MB

\* lines 89-93 when nothing raises: the file joins the batch
chunk_append_first(st, files, i, readable) ==
    [st EXCEPT !.current_batch = Append(@, i),
               !.current_batch_size = @ + files[i].size]
chunk_append(st, files, i, readable) ==
    IF readable
    THEN [st EXCEPT !.current_batch = Append(@, i),
                    !.current_batch_size = @ + files[i].size]
    ELSE st

\* lines 96-99: the tokenizer call on a due batch; when encode raises the
\* except of line 101 is entered before the two resets
chunk_flush(st, files, enc_ok) ==
    IF enc_ok
    THEN [current_batch |-> <<>>, current_batch_size |-> 0,
          total_tokens |-> st.total_tokens + encode_len(files, st.current_batch)]
    ELSE st

\* one iteration of the for loop of count_tokens_chunked
chunk_iteration(st, files, i, readable, enc_ok) ==
    LET a == chunk_append(st, files, i, readable)
    IN  IF readable /\ flush_due(a) THEN chunk_flush(a, files, enc_ok) ELSE a

\* load_processed_repos: row["repo_path"] raises KeyError on the first row
\* read under a header that is itself a data row
load_processed_raises(file) == file.state = "headerless" /\ Len(file.rows) >= 2

\* load_processed_repos, when it returns
load_processed_repos(file) ==
    IF file.state = "headerless" THEN {} ELSE {r.repo_path : r \in Range(file.rows)}

\* pending_repos = [r for r in all_repos if r not in processed]
pending_of(all_repos, processed) == SelectSeq(all_repos, LAMBDA r : r \notin processed)

\* append_to_csv
append_to_csv(file, repo_path, token_count, file_count) ==
    LET row == [repo_path |-> repo_path, number_of_tokens |-> token_count,
                file_count |-> file_count]
    IN  IF file.state \in {"empty", "headerless"}
        THEN \* file_exists: no header is written
             HeaderlessFile(file.rows \o <<row>>)
        ELSE CsvFile(file.rows \o <<row>>)

\* ================================================== Pdfs/pdf_download.py
\* The url column of combined_doc_rows.csv.  The other columns are carried
\* into the log row and decide the file name only.
DocRawUrls == {"", " ", "http://d/a.pdf", "http://d/a.pdf ", "http://d/b.pdf"}
DocUrls == {strip(u) : u \in DocRawUrls} \ {""}

InputCsvs ==
    {[exists |-> FALSE, rows |-> <<>>]}
        \cup {[exists |-> TRUE, rows |-> r] : r \in SeqsUpTo(DocRawUrls, MaxUnits)}

\* load_download_log: downloaded[row['url']] = row['status'], row after row
RECURSIVE load_download_log(_)
load_download_log(rows) ==
    IF rows = <<>> THEN [u \in DocUrls |-> "none"]
    ELSE LET r == rows[Len(rows)]
         IN  [load_download_log(SubSeq(rows, 1, Len(rows) - 1)) EXCEPT ![r.url] = r.status]

\* url in download_log and download_log[url] == 'success'
already_downloaded(log, url) == url \in DOMAIN log /\ log[url] = "success"

\* if not url
no_url_never(url) == FALSE
no_url(url) == url = ""

\* download_pdf: (True, ...) when urlretrieve returns, (False, ...) on
\* HTTPError, URLError or any other exception
download_pdf(ended) == ended = "ok"

DownloadEnds == {"ok", "HTTPError", "URLError", "Exception"}

\* save_to_log
save_to_log(file, url, status) == CsvFile(file.rows \o <<[url |-> url, status |-> status]>>)

VARIABLES
    runner,        \* which of the four scripts this behaviour runs
    runs,          \* processes started so far
    lastEnd,       \* how the last process ended (or "running")
    \* --- ghosts kept for the properties
    visited,       \* identities the current run started to process, in order
    outcome,       \* outcome[i]: how visited[i] ended ("inflight" until then)
    doneAtStart,   \* identities the ledger recorded as done when the run started
    succ,          \* identities whose unit last ended with success in this run
    inflight,      \* the unit the last kill interrupted
    limit,         \* the kind of CLI argument of the current (or last) run
    repeat,        \* this run with "all" directly follows a completed run with "all"
    ledger0,       \* the ledger file a repeat run started from
    completed,     \* identities whose clone / scan-and-tokenize / download completed
    unread,        \* files of the current repository whose read raised
    \* --- clone_github.py
    manifest,      \* reportv2.csv
    status_csv,    \* clone_status.csv
    cloned_repos,  \* names of the directories under cloned_repos/
    c_pc,          \* where the clone runner is
    c_pending,     \* load_data's result in the current run
    c_df,          \* the rows selected by the limit
    c_idx,         \* position of the for loop in c_df
    c_status,      \* the status about to be handed to update_status
    c_new,         \* the frame update_status is writing
    durable,       \* url -> status of its last completed update_status call
    \* --- count_repo_token.py
    base_dir,      \* os.listdir(BASE_DIR): the repository directories, in order
    output_csv,    \* repo_token_count.csv
    t_pc,          \* where the token-count runner is
    pending_repos, \* the repositories selected for this run
    t_idx,         \* position of the for loop in pending_repos
    walked,        \* the files os.walk yielded to the collect_valid_files call just made
    valid_files,   \* collect_valid_files' result for the current repository
    f_idx,         \* position of count_tokens_chunked's loop in valid_files
    chunk,         \* the locals of count_tokens_chunked
    encoded,       \* the batches handed to tokenizer.encode for this repository
    \* --- Pdfs/pdf_download.py
    input_csv,     \* combined_doc_rows.csv
    log_csv,       \* download_log.csv
    download_log,  \* the dict load_download_log returned
    d_pc,          \* where the download runner is
    d_idx,         \* position of the for loop in the rows
    d_status,      \* the status about to be logged
    success_count,
    skipped_count,
    failed_count,
    \* --- Pdfs/pdf_text_token.py
    pdf_dir,       \* the .pdf files of downloaded_pdfs/, in listing order
    token_csv,     \* pdf_token_count.csv
    text_dir,      \* documents whose text file is saved in pdf_text_files/
    results,       \* the rows process_pdfs has collected
    p_pc,          \* where the PDF pipeline is
    p_idx          \* position of the for loop in pdf_dir

ctlVars == <<runner, runs, lastEnd>>
ghostVars == <<visited, outcome, doneAtStart, succ, inflight, limit, repeat,
               ledger0, completed, unread>>
cloneVars == <<manifest, status_csv, cloned_repos, c_pc, c_pending, c_df, c_idx,
               c_status, c_new, durable>>
countVars == <<base_dir, output_csv, t_pc, pending_repos, t_idx, walked,
               valid_files, f_idx, chunk, encoded>>
dlVars == <<input_csv, log_csv, download_log, d_pc, d_idx, d_status,
            success_count, skipped_count, failed_count>>
pdfVars == <<pdf_dir, token_csv, text_dir, results, p_pc, p_idx>>
vars == <<ctlVars, ghostVars, cloneVars, countVars, dlVars, pdfVars>>

Running(pc) == pc \notin {"idle", "done", "returned", "exit1", "crashed"}

Last(s) == s[Len(s)]
SetLast(s, v) == [s EXCEPT ![Len(s)] = v]

\* ------------------------------------------------------ clone_github.py
\* identities with status success in clone_status.csv
clone_done(file) == {r.url : r \in {x \in Range(file.rows) : x.status = "success"}}

CloneInit ==
    /\ manifest \in Manifests
    /\ status_csv = NoFile
    /\ cloned_repos = {}
    /\ c_pc = "idle"
    /\ c_pending = <<>>
    /\ c_df = <<>>
    /\ c_idx = 0
    /\ c_status = "none"
    /\ c_new = <<>>
    /\ durable = [u \in Urls |-> "none"]

\* main up to the for loop: load_data, the empty check, the limit
clone_main(arg) ==
    /\ runner = "clone"
    /\ ~Running(c_pc)
    /\ runs < MaxRuns
    /\ runs' = runs + 1
    /\ visited' = <<>>
    /\ outcome' = <<>>
    /\ succ' = {}
    /\ inflight' = inflight
    /\ doneAtStart' = clone_done(status_csv)
    /\ limit' = arg.kind
    /\ repeat' = (lastEnd = "done" /\ limit = "all" /\ arg.kind = "all")
    /\ ledger0' = IF repeat' THEN status_csv ELSE NoFile
    /\ UNCHANGED <<runner, manifest, status_csv, cloned_repos, c_status, c_new, durable,
                   completed, unread>>
    /\ UNCHANGED <<countVars, dlVars, pdfVars>>
    /\ IF ~manifest.exists \/ status_csv.state = "empty"
       THEN \* FileNotFoundError / pandas EmptyDataError leave main
            /\ c_pc' = "crashed"
            /\ lastEnd' = "crashed"
            /\ c_pending' = <<>>
            /\ c_df' = <<>>
            /\ c_idx' = 0
       ELSE LET df == load_data(manifest.rows, status_csv.rows)
            IN  /\ c_pending' = df
                /\ c_idx' = 1
                /\ IF Len(df) = 0
                   THEN c_pc' = "done" /\ lastEnd' = "done" /\ c_df' = <<>>
                   ELSE IF arg.kind = "bad"
                   THEN c_pc' = "exit1" /\ lastEnd' = "exit1" /\ c_df' = <<>>
                   ELSE LET sel == IF arg.kind = "all" THEN df ELSE head(df, arg.n)
                        IN  /\ c_df' = sel
                            /\ IF Len(sel) = 0
                               THEN c_pc' = "done" /\ lastEnd' = "done"
                               ELSE c_pc' = "loop" /\ lastEnd' = "running"

\* one iteration of the for loop up to the call of update_status or git
clone_row ==
    /\ runner = "clone"
    /\ c_pc = "loop"
    /\ LET url == strip(c_df[c_idx].url)
       IN  /\ visited' = Append(visited, url)
           /\ outcome' = Append(outcome, "inflight")
           /\ IF ~startswith_github(url)
              THEN c_status' = "invalid" /\ c_pc' = "update"
              ELSE IF repo_name(url) \in cloned_repos
              THEN c_status' = "exists" /\ c_pc' = "update"
              ELSE c_status' = "none" /\ c_pc' = "cloning"
    /\ UNCHANGED <<ctlVars, manifest, status_csv, cloned_repos, c_pending, c_df,
                   c_idx, c_new, durable, doneAtStart, succ, inflight, limit, repeat,
                   ledger0, completed, unread>>
    /\ UNCHANGED <<countVars, dlVars, pdfVars>>

\* the git subprocess ends and clone_repo returns
clone_returns ==
    /\ runner = "clone"
    /\ c_pc = "cloning"
    /\ \E ended \in SubprocessEnds :
         /\ c_status' = clone_repo(ended)
         /\ completed' = IF ended = "ok" THEN completed \cup {Last(visited)} ELSE completed
         /\ \/ ended = "ok" /\ cloned_repos' = cloned_repos \cup {repo_name(Last(visited))}
            \/ ended # "ok" /\ cloned_repos' = cloned_repos
            \* a subprocess killed at the timeout leaves what it had written
            \/ ended = "timeout" /\ cloned_repos' = cloned_repos \cup {repo_name(Last(visited))}
    /\ c_pc' = "update"
    /\ UNCHANGED <<ctlVars, manifest, status_csv, c_pending, c_df, c_idx, c_new,
                   durable, visited, outcome, doneAtStart, succ, inflight, limit,
                   repeat, ledger0, unread>>
    /\ UNCHANGED <<countVars, dlVars, pdfVars>>

\* update_status up to df.to_csv opening clone_status.csv for writing
update_status_open ==
    /\ runner = "clone"
    /\ c_pc = "update"
    /\ IF status_csv.state = "empty"
       THEN \* pd.read_csv raises on a file with no header
            /\ c_pc' = "crashed" /\ lastEnd' = "crashed"
            /\ UNCHANGED <<status_csv, c_new>>
       ELSE /\ c_new' = update_status(status_csv.rows, Last(visited), c_status)
            /\ status_csv' = EmptyFile
            /\ c_pc' = "writing"
            /\ UNCHANGED lastEnd
    /\ UNCHANGED <<runner, runs, manifest, cloned_repos, c_pending, c_df, c_idx,
                   c_status, durable, ghostVars>>
    /\ UNCHANGED <<countVars, dlVars, pdfVars>>

\* df.to_csv completes, update_status returns, the loop moves on
update_status_close ==
    /\ runner = "clone"
    /\ c_pc = "writing"
    /\ LET url == Last(visited)
       IN  /\ status_csv' = CsvFile(c_new)
           /\ durable' = [durable EXCEPT ![url] = c_status]
           /\ succ' = IF c_status = "success" THEN succ \cup {url} ELSE succ \ {url}
    /\ outcome' = SetLast(outcome, c_status)
    /\ c_status' = "none"
    /\ c_new' = <<>>
    /\ IF c_idx < Len(c_df)
       THEN c_idx' = c_idx + 1 /\ c_pc' = "loop" /\ UNCHANGED lastEnd
       ELSE c_idx' = c_idx /\ c_pc' = "done" /\ lastEnd' = "done"
    /\ UNCHANGED <<runner, runs, manifest, cloned_repos, c_pending, c_df,
                   visited, doneAtStart, inflight, limit, repeat, ledger0, completed,
                   unread>>
    /\ UNCHANGED <<countVars, dlVars, pdfVars>>

\* the process is killed; a clone or a write under way stops where it is
clone_kill ==
    /\ runner = "clone"
    /\ Running(c_pc)
    /\ c_pc' = "idle"
    /\ lastEnd' = "killed"
    /\ inflight' = IF c_pc = "loop" THEN "none" ELSE Last(visited)
    /\ IF c_pc = "cloning"
       THEN \E left \in BOOLEAN :
              cloned_repos' = IF left THEN cloned_repos \cup {repo_name(Last(visited))}
                              ELSE cloned_repos
       ELSE cloned_repos' = cloned_repos
    /\ IF c_pc = "writing"
       THEN \* what reached the disk: nothing, or the header and some rows
            \E k \in (0 - 1)..(Len(c_new) - 1) :
              status_csv' = IF k < 0 THEN EmptyFile ELSE CsvFile(SubSeq(c_new, 1, k))
       ELSE status_csv' = status_csv
    /\ c_df' = <<>>
    /\ c_idx' = 0
    /\ c_status' = "none"
    /\ c_new' = <<>>
    /\ UNCHANGED <<runner, runs, manifest, c_pending, durable, visited, outcome,
                   doneAtStart, succ, limit, repeat, ledger0, completed, unread>>
    /\ UNCHANGED <<countVars, dlVars, pdfVars>>

\* -------------------------------------------------- count_repo_token.py
CountInit ==
    /\ base_dir \in {[i \in 1..k |-> i] : k \in 0..MaxUnits}
    /\ output_csv = NoFile
    /\ t_pc = "idle"
    /\ pending_repos = <<>>
    /\ t_idx = 0
    /\ walked = <<>>
    /\ valid_files = <<>>
    /\ f_idx = 0
    /\ chunk = ChunkInit
    /\ encoded = <<>>

\* main up to the for loop
count_main(arg, tokenizer_loads) ==
    /\ runner = "count"
    /\ ~Running(t_pc)
    /\ runs < MaxCountRuns
    /\ runs' = runs + 1
    /\ visited' = <<>>
    /\ outcome' = <<>>
    /\ succ' = {}
    /\ inflight' = 0
    /\ doneAtStart' = load_processed_repos(output_csv)
    /\ limit' = arg.kind
    /\ repeat' = (lastEnd = "done" /\ limit = "all" /\ arg.kind = "all")
    /\ ledger0' = IF repeat' THEN output_csv ELSE NoFile
    /\ unread' = {}
    /\ UNCHANGED completed
    /\ LET pending == pending_of(base_dir, load_processed_repos(output_csv))
           sel == IF arg.kind = "int" THEN head(pending, arg.n) ELSE pending
       IN  IF load_processed_raises(output_csv)
           THEN \* KeyError out of main
                t_pc' = "crashed" /\ lastEnd' = "crashed" /\ pending_repos' = <<>>
           ELSE IF arg.kind = "bad"
           THEN \* logging.error, return
                t_pc' = "returned" /\ lastEnd' = "returned" /\ pending_repos' = <<>>
           ELSE IF sel = <<>>
           THEN t_pc' = "done" /\ lastEnd' = "done" /\ pending_repos' = <<>>
           ELSE IF ~tokenizer_loads
           THEN \* AutoTokenizer.from_pretrained raises out of main
                t_pc' = "crashed" /\ lastEnd' = "crashed" /\ pending_repos' = <<>>
           ELSE t_pc' = "loop" /\ lastEnd' = "running" /\ pending_repos' = sel
    /\ t_idx' = 1
    /\ walked' = <<>>
    /\ valid_files' = <<>>
    /\ f_idx' = 0
    /\ chunk' = ChunkInit
    /\ encoded' = <<>>
    /\ UNCHANGED <<runner, base_dir, output_csv>>
    /\ UNCHANGED <<cloneVars, dlVars, pdfVars>>

\* the for loop of main moves to the next repository or ends
CountAdvance ==
    IF t_idx < Len(pending_repos)
    THEN t_idx' = t_idx + 1 /\ t_pc' = "loop" /\ UNCHANGED lastEnd
    ELSE t_idx' = t_idx /\ t_pc' = "done" /\ lastEnd' = "done"

\* an exception of process_repo reaches main: except Exception logs it
\* and the for loop goes on
main_except_missing ==
    t_pc' = "crashed" /\ lastEnd' = "crashed" /\ UNCHANGED t_idx
main_except == CountAdvance

\* process_repo up to the call of count_tokens_chunked or append_to_csv;
\* os.walk finds at most most_files files in the repository
process_repo(most_files) ==
    /\ runner = "count"
    /\ t_pc = "loop"
    /\ visited' = Append(visited, pending_repos[t_idx])
    /\ outcome' = Append(outcome, "inflight")
    /\ \E walk \in SeqsUpTo(WalkFiles, most_files) :
         /\ walked' = walk
         /\ valid_files' = collect_valid_files(walk)
         /\ t_pc' = IF collect_valid_files(walk) = <<>> THEN "append" ELSE "files"
         /\ completed' = IF collect_valid_files(walk) = <<>>
                         THEN completed \cup {pending_repos[t_idx]} ELSE completed
    /\ f_idx' = 1
    /\ chunk' = ChunkInit
    /\ encoded' = <<>>
    /\ unread' = {}
    /\ UNCHANGED <<ctlVars, base_dir, output_csv, pending_repos, t_idx,
                   doneAtStart, succ, inflight, limit, repeat, ledger0>>
    /\ UNCHANGED <<cloneVars, dlVars, pdfVars>>

\* one iteration of the loop of count_tokens_chunked
count_tokens_file(readable, enc_ok) ==
    /\ runner = "count"
    /\ t_pc = "files"
    /\ walked' = <<>>
    /\ chunk' = chunk_iteration(chunk, valid_files, f_idx, readable, enc_ok)
    /\ LET a == chunk_append(chunk, valid_files, f_idx, readable)
       IN  encoded' =
             IF readable /\ flush_due(a)
             THEN Append(encoded, [files |-> a.current_batch,
                                   size |-> a.current_batch_size, ok |-> enc_ok])
             ELSE encoded
    /\ IF f_idx < Len(valid_files)
       THEN f_idx' = f_idx + 1 /\ t_pc' = "files"
       ELSE f_idx' = f_idx /\ t_pc' = "leftover"
    /\ unread' = IF readable THEN unread ELSE unread \cup {f_idx}
    /\ UNCHANGED <<ctlVars, base_dir, output_csv, pending_repos, t_idx, valid_files,
                   visited, outcome, doneAtStart, succ, inflight, limit, repeat,
                   ledger0, completed>>
    /\ UNCHANGED <<cloneVars, dlVars, pdfVars>>

\* the leftover batch of count_tokens_chunked; an exception of encode
\* leaves count_tokens_chunked and process_repo and is caught in main
count_tokens_leftover(enc_ok) ==
    /\ runner = "count"
    /\ t_pc = "leftover"
    /\ walked' = <<>>
    /\ IF chunk.current_batch = <<>>
       THEN /\ t_pc' = "append"
            /\ completed' = completed \cup {Last(visited)}
            /\ UNCHANGED <<chunk, encoded, outcome, t_idx, lastEnd>>
       ELSE /\ encoded' = Append(encoded, [files |-> chunk.current_batch,
                                           size |-> chunk.current_batch_size,
                                           ok |-> enc_ok])
            /\ IF enc_ok
               THEN /\ chunk' = [chunk EXCEPT !.total_tokens =
                                   @ + encode_len(valid_files, chunk.current_batch)]
                    /\ t_pc' = "append"
                    /\ completed' = completed \cup {Last(visited)}
                    /\ UNCHANGED <<outcome, t_idx, lastEnd>>
               ELSE /\ outcome' = SetLast(outcome, "exception")
                    /\ main_except
                    /\ UNCHANGED <<chunk, completed>>
    /\ UNCHANGED <<runner, runs, base_dir, output_csv, pending_repos, valid_files,
                   f_idx, visited, doneAtStart, succ, inflight, limit, repeat,
                   ledger0, unread>>
    /\ UNCHANGED <<cloneVars, dlVars, pdfVars>>

\* process_repo's append_to_csv, and the loop of main moves on
count_append ==
    /\ runner = "count"
    /\ t_pc = "append"
    /\ walked' = <<>>
    /\ output_csv' = append_to_csv(output_csv, Last(visited), chunk.total_tokens,
                                   Len(valid_files))
    /\ outcome' = SetLast(outcome, "row")
    /\ succ' = succ \cup {Last(visited)}
    /\ CountAdvance
    /\ UNCHANGED <<runner, runs, base_dir, pending_repos, valid_files, f_idx, chunk,
                   encoded, visited, doneAtStart, inflight, limit, repeat, ledger0,
                   completed, unread>>
    /\ UNCHANGED <<cloneVars, dlVars, pdfVars>>

count_kill ==
    /\ runner = "count"
    /\ Running(t_pc)
    /\ t_pc' = "idle"
    /\ lastEnd' = "killed"
    /\ inflight' = IF t_pc = "loop" THEN 0 ELSE Last(visited)
    /\ pending_repos' = <<>>
    /\ t_idx' = 0
    /\ walked' = <<>>
    /\ valid_files' = <<>>
    /\ f_idx' = 0
    /\ chunk' = ChunkInit
    /\ encoded' = <<>>
    /\ unread' = {}
    /\ IF t_pc = "append" /\ output_csv.state = "absent"
       THEN \* append_to_csv was not entered, or it had opened the file and
            \* written nothing yet
            output_csv' \in {NoFile, EmptyFile}
       ELSE output_csv' = output_csv
    /\ UNCHANGED <<runner, runs, base_dir, visited, outcome,
                   doneAtStart, succ, limit, repeat, ledger0, completed>>
    /\ UNCHANGED <<cloneVars, dlVars, pdfVars>>

\* --------------------------------------------------- Pdfs/pdf_download.py
\* urls with a success row in download_log.csv
download_done(file) == {r.url : r \in {x \in Range(file.rows) : x.status = "success"}}

DownloadInit ==
    /\ input_csv \in InputCsvs
    /\ log_csv = NoFile
    /\ download_log = [u \in DocUrls |-> "none"]
    /\ d_pc = "idle"
    /\ d_idx = 0
    /\ d_status = "none"
    /\ success_count = 0
    /\ skipped_count = 0
    /\ failed_count = 0

\* process_csv up to the for loop
process_csv ==
    /\ runner = "download"
    /\ ~Running(d_pc)
    /\ runs < MaxRuns
    /\ runs' = runs + 1
    /\ visited' = <<>>
    /\ outcome' = <<>>
    /\ succ' = {}
    /\ inflight' = "none"
    /\ doneAtStart' = download_done(log_csv)
    /\ limit' = "all"
    /\ repeat' = (lastEnd = "done")
    /\ ledger0' = IF repeat' THEN log_csv ELSE NoFile
    /\ UNCHANGED <<completed, unread>>
    /\ download_log' = load_download_log(log_csv.rows)
    /\ d_idx' = 1
    /\ d_status' = "none"
    /\ success_count' = 0
    /\ skipped_count' = 0
    /\ failed_count' = 0
    /\ IF ~input_csv.exists
       THEN d_pc' = "returned" /\ lastEnd' = "returned"
       ELSE IF input_csv.rows = <<>>
       THEN d_pc' = "done" /\ lastEnd' = "done"
       ELSE d_pc' = "loop" /\ lastEnd' = "running"
    /\ UNCHANGED <<runner, input_csv, log_csv>>
    /\ UNCHANGED <<cloneVars, countVars, pdfVars>>

\* the for loop moves to the next row or to the summary
DownloadAdvance ==
    IF d_idx < Len(input_csv.rows)
    THEN d_idx' = d_idx + 1 /\ d_pc' = "loop" /\ UNCHANGED lastEnd
    ELSE d_idx' = d_idx /\ d_pc' = "done" /\ lastEnd' = "done"

\* one iteration of the for loop up to the call of download_pdf
download_row ==
    /\ runner = "download"
    /\ d_pc = "loop"
    /\ LET url == strip(input_csv.rows[d_idx])
       IN  IF no_url(url)
           THEN /\ DownloadAdvance
                /\ UNCHANGED <<visited, outcome, skipped_count>>
           ELSE IF already_downloaded(download_log, url)
           THEN /\ skipped_count' = skipped_count + 1
                /\ DownloadAdvance
                /\ UNCHANGED <<visited, outcome>>
           ELSE /\ visited' = Append(visited, url)
                /\ outcome' = Append(outcome, "inflight")
                /\ d_pc' = "downloading"
                /\ UNCHANGED <<d_idx, lastEnd, skipped_count>>
    /\ UNCHANGED <<runner, runs, input_csv, log_csv, download_log, d_status,
                   success_count, failed_count, doneAtStart, succ, inflight, limit,
                   repeat, ledger0, completed, unread>>
    /\ UNCHANGED <<cloneVars, countVars, pdfVars>>

\* download_pdf returns
download_returns(ended) ==
    /\ runner = "download"
    /\ d_pc = "downloading"
    /\ d_status' = IF download_pdf(ended) THEN "success" ELSE "failed"
    /\ d_pc' = "logging"
    /\ completed' = IF download_pdf(ended) THEN completed \cup {Last(visited)}
                    ELSE completed
    /\ UNCHANGED <<ctlVars, visited, outcome, doneAtStart, succ, inflight, limit,
                   repeat, ledger0, unread, input_csv, log_csv, download_log, d_idx,
                   success_count, skipped_count, failed_count>>
    /\ UNCHANGED <<cloneVars, countVars, pdfVars>>

\* save_to_log and the counter, and the loop moves on
download_logged ==
    /\ runner = "download"
    /\ d_pc = "logging"
    /\ log_csv' = save_to_log(log_csv, Last(visited), d_status)
    /\ outcome' = SetLast(outcome, d_status)
    /\ succ' = IF d_status = "success" THEN succ \cup {Last(visited)}
               ELSE succ \ {Last(visited)}
    /\ success_count' = IF d_status = "success" THEN success_count + 1 ELSE success_count
    /\ failed_count' = IF d_status = "success" THEN failed_count ELSE failed_count + 1
    /\ d_status' = "none"
    /\ DownloadAdvance
    /\ UNCHANGED <<runner, runs, input_csv, download_log, skipped_count, visited,
                   doneAtStart, inflight, limit, repeat, ledger0, completed, unread>>
    /\ UNCHANGED <<cloneVars, countVars, pdfVars>>

download_kill ==
    /\ runner = "download"
    /\ Running(d_pc)
    /\ d_pc' = "idle"
    /\ lastEnd' = "killed"
    /\ inflight' = IF d_pc = "loop" THEN "none" ELSE Last(visited)
    /\ download_log' = [u \in DocUrls |-> "none"]
    /\ d_idx' = 0
    /\ d_status' = "none"
    /\ UNCHANGED <<runner, runs, input_csv, log_csv, success_count, skipped_count,
                   failed_count, visited, outcome, doneAtStart, succ, limit, repeat,
                   ledger0, completed, unread>>
    /\ UNCHANGED <<cloneVars, countVars, pdfVars>>

\* ------------------------------------------------- Pdfs/pdf_text_token.py
PdfInit ==
    /\ pdf_dir \in {[i \in 1..k |-> i] : k \in 0..MaxUnits}
    /\ token_csv = NoFile
    /\ text_dir = {}
    /\ results = <<>>
    /\ p_pc = "idle"
    /\ p_idx = 0

\* the row process_pdfs appends to results for one document, if any
pdf_rows(doc, extract_ok, save_ok, tok_ok) ==
    IF ~extract_ok
    THEN <<[doc_name |-> doc, token_count |-> 0, status |-> "failed"]>>
    ELSE IF ~save_ok
    THEN <<>>
    ELSE <<[doc_name |-> doc, token_count |-> IF tok_ok THEN 1 ELSE 0,
            status |-> "success"]>>

\* where process_pdfs goes after loading the tokenizer and listing the PDFs:
\* it returns when the tokenizer cannot be loaded or no PDF is found
pdf_setup_lenient(tokenizer_loads, pdf_files) ==
    IF pdf_files = <<>> THEN "returned" ELSE "loop"
pdf_setup(tokenizer_loads, pdf_files) ==
    IF ~tokenizer_loads \/ pdf_files = <<>> THEN "returned" ELSE "loop"

\* process_pdfs up to the for loop
process_pdfs(tokenizer_loads) ==
    /\ runner = "pdf"
    /\ ~Running(p_pc)
    /\ runs < MaxRuns
    /\ runs' = runs + 1
    /\ visited' = <<>>
    /\ outcome' = <<>>
    /\ succ' = {}
    /\ inflight' = 0
    /\ doneAtStart' = {}
    /\ limit' = "all"
    /\ repeat' = (lastEnd = "done")
    /\ ledger0' = IF repeat' THEN token_csv ELSE NoFile
    /\ UNCHANGED <<completed, unread>>
    /\ results' = <<>>
    /\ p_idx' = 1
    /\ p_pc' = pdf_setup(tokenizer_loads, pdf_dir)
    /\ lastEnd' = IF pdf_setup(tokenizer_loads, pdf_dir) = "loop" THEN "running"
                  ELSE "returned"
    /\ UNCHANGED <<runner, pdf_dir, token_csv, text_dir>>
    /\ UNCHANGED <<cloneVars, countVars, dlVars>>

\* one iteration of the for loop: extract, save the text, count
pdf_document(extract_ok, save_ok, tok_ok) ==
    /\ runner = "pdf"
    /\ p_pc = "loop"
    /\ LET doc == pdf_dir[p_idx]
       IN  /\ visited' = Append(visited, doc)
           /\ outcome' = Append(outcome,
                                IF ~extract_ok THEN "failed"
                                ELSE IF ~save_ok THEN "unsaved" ELSE "success")
           /\ results' = results \o pdf_rows(doc, extract_ok, save_ok, tok_ok)
           /\ text_dir' = IF extract_ok /\ save_ok THEN text_dir \cup {doc} ELSE text_dir
    /\ IF p_idx < Len(pdf_dir)
       THEN p_idx' = p_idx + 1 /\ p_pc' = "loop"
       ELSE p_idx' = p_idx /\ p_pc' = "save"
    /\ UNCHANGED <<ctlVars, pdf_dir, token_csv, doneAtStart, succ, inflight, limit,
                   repeat, ledger0, completed, unread>>
    /\ UNCHANGED <<cloneVars, countVars, dlVars>>

\* open(OUTPUT_CSV, 'w') after the loop
pdf_save_open ==
    /\ runner = "pdf"
    /\ p_pc = "save"
    /\ token_csv' = EmptyFile
    /\ p_pc' = "saving"
    /\ UNCHANGED <<ctlVars, ghostVars, pdf_dir, text_dir, results, p_idx>>
    /\ UNCHANGED <<cloneVars, countVars, dlVars>>

\* writeheader, writerows, close, and the summary
pdf_save_close ==
    /\ runner = "pdf"
    /\ p_pc = "saving"
    /\ token_csv' = CsvFile(results)
    /\ p_pc' = "done"
    /\ lastEnd' = "done"
    /\ UNCHANGED <<runner, runs, ghostVars, pdf_dir, text_dir, results, p_idx>>
    /\ UNCHANGED <<cloneVars, countVars, dlVars>>

pdf_kill ==
    /\ runner = "pdf"
    /\ Running(p_pc)
    /\ p_pc' = "idle"
    /\ lastEnd' = "killed"
    /\ IF p_pc = "saving"
       THEN \E k \in (0 - 1)..(Len(results) - 1) :
              token_csv' = IF k < 0 THEN EmptyFile ELSE CsvFile(SubSeq(results, 1, k))
       ELSE token_csv' = token_csv
    /\ results' = <<>>
    /\ p_idx' = 0
    /\ UNCHANGED <<runner, runs, ghostVars, pdf_dir, text_dir>>
    /\ UNCHANGED <<cloneVars, countVars, dlVars>>

\* ------------------------------------------------------------ the system
Runners == {"clone", "count", "download", "pdf"}

Init ==
    /\ runner \in Runners
    /\ runs = 0
    /\ lastEnd = "none"
    /\ visited = <<>>
    /\ outcome = <<>>
    /\ doneAtStart = {}
    /\ succ = {}
    /\ inflight = IF runner \in {"count", "pdf"} THEN 0 ELSE "none"
    /\ limit = "none"
    /\ repeat = FALSE
    /\ ledger0 = NoFile
    /\ completed = {}
    /\ unread = {}
    /\ IF runner = "clone" THEN CloneInit
       ELSE /\ manifest = [exists |-> FALSE, rows |-> <<>>]
            /\ status_csv = NoFile /\ cloned_repos = {} /\ c_pc = "idle"
            /\ c_pending = <<>> /\ c_df = <<>> /\ c_idx = 0 /\ c_status = "none"
            /\ c_new = <<>> /\ durable = [u \in Urls |-> "none"]
    /\ IF runner = "count" THEN CountInit
       ELSE /\ base_dir = <<>> /\ output_csv = NoFile /\ t_pc = "idle"
            /\ pending_repos = <<>> /\ t_idx = 0 /\ walked = <<>>
            /\ valid_files = <<>>
            /\ f_idx = 0 /\ chunk = ChunkInit /\ encoded = <<>>
    /\ IF runner = "download" THEN DownloadInit
       ELSE /\ input_csv = [exists |-> FALSE, rows |-> <<>>] /\ log_csv = NoFile
            /\ download_log = [u \in DocUrls |-> "none"] /\ d_pc = "idle"
            /\ d_idx = 0 /\ d_status = "none" /\ success_count = 0
            /\ skipped_count = 0 /\ failed_count = 0
    /\ IF runner = "pdf" THEN PdfInit
       ELSE /\ pdf_dir = <<>> /\ token_csv = NoFile /\ text_dir = {}
            /\ results = <<>> /\ p_pc = "idle" /\ p_idx = 0

Next ==
    \/ \E arg \in Args : clone_main(arg)
    \/ clone_row
    \/ clone_returns
    \/ update_status_open
    \/ update_status_close
    \/ clone_kill
    \/ \E arg \in Args, tokenizer_loads \in BOOLEAN : count_main(arg, tokenizer_loads)
    \/ process_repo(1)
    \/ \E readable \in BOOLEAN, enc_ok \in BOOLEAN : count_tokens_file(readable, enc_ok)
    \/ \E enc_ok \in BOOLEAN : count_tokens_leftover(enc_ok)
    \/ count_append
    \/ count_kill
    \/ process_csv
    \/ download_row
    \/ \E ended \in DownloadEnds : download_returns(ended)
    \/ download_logged
    \/ download_kill
    \/ \E tokenizer_loads \in BOOLEAN : process_pdfs(tokenizer_loads)
    \/ \E extract_ok \in BOOLEAN, save_ok \in BOOLEAN, tok_ok \in BOOLEAN :
         pdf_document(extract_ok, save_ok, tok_ok)
    \/ pdf_save_open
    \/ pdf_save_close
    \/ pdf_kill

Spec == Init /\ [][Next]_vars

\* count_tokens_chunked on its own: one run of the token-count runner over
\* one repository, whose walk is drawn from every list of up to MaxFiles
\* files
ChunkInit0 ==
    /\ Init
    /\ runner = "count"
    /\ base_dir = <<1>>

ChunkNext ==
    \/ \E tokenizer_loads \in BOOLEAN :
         count_main([kind |-> "all", n |-> 0], tokenizer_loads) /\ runs = 0
    \/ process_repo(MaxFiles)
    \/ \E readable \in BOOLEAN, enc_ok \in BOOLEAN : count_tokens_file(readable, enc_ok)
    \/ \E enc_ok \in BOOLEAN : count_tokens_leftover(enc_ok)
    \/ count_append
    \/ count_kill

ChunkSpec == ChunkInit0 /\ [][ChunkNext]_vars

\* the run without kills, every process running on to its end
NextNoKill ==
    \/ \E arg \in Args : clone_main(arg)
    \/ clone_row
    \/ clone_returns
    \/ update_status_open
    \/ update_status_close
    \/ \E arg \in Args, tokenizer_loads \in BOOLEAN : count_main(arg, tokenizer_loads)
    \/ process_repo(1)
    \/ \E readable \in BOOLEAN, enc_ok \in BOOLEAN : count_tokens_file(readable, enc_ok)
    \/ \E enc_ok \in BOOLEAN : count_tokens_leftover(enc_ok)
    \/ count_append
    \/ process_csv
    \/ download_row
    \/ \E ended \in DownloadEnds : download_returns(ended)
    \/ download_logged
    \/ \E tokenizer_loads \in BOOLEAN : process_pdfs(tokenizer_loads)
    \/ \E extract_ok \in BOOLEAN, save_ok \in BOOLEAN, tok_ok \in BOOLEAN :
         pdf_document(extract_ok, save_ok, tok_ok)
    \/ pdf_save_open
    \/ pdf_save_close

FairSpec == Init /\ [][NextNoKill]_vars /\ WF_vars(NextNoKill)

\* ============================================================ properties
ResumeRunners == {"clone", "count", "download"}

\* the ledger file of the runner of this behaviour
Ledger ==
    CASE runner = "clone" -> status_csv
      [] runner = "count" -> output_csv
      [] runner = "download" -> log_csv
      [] OTHER -> token_csv

RunPc ==
    CASE runner = "clone" -> c_pc
      [] runner = "count" -> t_pc
      [] runner = "download" -> d_pc
      [] OTHER -> p_pc

NoUnit == IF runner \in {"count", "pdf"} THEN 0 ELSE "none"

\* the identities the next run would find pending, as the files are now
NextPending ==
    CASE runner = "clone" ->
           IF ~manifest.exists \/ status_csv.state = "empty" THEN {}
           ELSE {strip(r.url) : r \in Range(load_data(manifest.rows, status_csv.rows))}
      [] runner = "count" ->
           Range(pending_of(base_dir, load_processed_repos(output_csv)))
      [] runner = "download" ->
           {u \in {strip(x) : x \in Range(input_csv.rows)} \ {""} :
              ~already_downloaded(load_download_log(log_csv.rows), u)}
      [] OTHER -> Range(pdf_dir)

\* the units the current run selected, in order
Selected ==
    CASE runner = "clone" -> [i \in 1..Len(c_df) |-> strip(c_df[i].url)]
      [] runner = "count" -> pending_repos
      [] runner = "download" ->
           LET urls == [i \in 1..Len(input_csv.rows) |-> strip(input_csv.rows[i])]
           IN  SelectSeq(urls, LAMBDA u : u # "" /\ ~already_downloaded(download_log, u))
      [] OTHER -> pdf_dir

\* ---- C1
C1_NotReprocessed ==
    runner \in ResumeRunners =>
        \A i \in 1..Len(visited) : visited[i] \notin doneAtStart

C1_PendingShrinks ==
    (runner = "clone" /\ runs' = runs + 1 /\ lastEnd = "done" /\ c_pc' # "crashed") =>
        LET k == Cardinality({i \in 1..Len(c_pending) : strip(c_pending[i].url) \in succ})
        IN  /\ Len(c_pending') = Len(c_pending) - k
            /\ \A i \in 1..Len(c_pending') : strip(c_pending'[i].url) \notin succ

\* C1: resume correctness.  A unit whose identity the ledger records as done
\* when a run starts is never processed by that run, in the clone, the
\* token-count and the download runner; and after a clone run in which k
\* pending repositories ended with success the next run's pending set has
\* exactly k fewer units and none of those k identities.
C1_ResumeCorrectness == []C1_NotReprocessed /\ [][C1_PendingShrinks]_vars

\* ---- C2
C2_SecondRunIdle ==
    /\ visited = <<>>
    /\ Ledger = ledger0
    /\ runner = "clone" /\ c_pc # "crashed" => c_pending = <<>>
    /\ runner = "count" => pending_repos = <<>>

AllDone0 ==
    CASE runner = "clone" ->
           /\ manifest.exists
           /\ \A r \in Range(manifest.rows) :
                lower(r.type) = "github" => merged_status(ledger0.rows, r.url) = "success"
      [] runner = "count" ->
           /\ ~load_processed_raises(ledger0)
           /\ Range(base_dir) \subseteq load_processed_repos(ledger0)
      [] runner = "download" ->
           /\ input_csv.exists
           /\ \A x \in Range(input_csv.rows) :
                strip(x) # "" =>
                  /\ \E r \in Range(ledger0.rows) : r.url = strip(x)
                  /\ LET last == CHOOSE i \in 1..Len(ledger0.rows) :
                                   /\ ledger0.rows[i].url = strip(x)
                                   /\ \A j \in (i + 1)..Len(ledger0.rows) :
                                        ledger0.rows[j].url # strip(x)
                     IN  ledger0.rows[last].status = "success"
      [] OTHER -> FALSE

C3_StatusDurable ==
    runner = "clone" =>
        /\ c_pc = "loop" =>
             \A i \in 1..Len(visited) :
                 /\ durable[visited[i]] # "none"
                 /\ merged_status(status_csv.rows, visited[i]) = durable[visited[i]]
        /\ lastEnd = "killed" =>
             \A u \in Urls :
                 (durable[u] # "none" /\ u # inflight) =>
                     merged_status(status_csv.rows, u) = durable[u]

\* ---- C4
\* C4: when the PDF pipeline starts the next document, or is killed, every
\* document it has finished with a result row has that row in
\* pdf_token_count.csv.
C4_RowBeforeNextDocument ==
    (runner = "pdf" /\ (p_pc = "loop" \/ lastEnd = "killed")) =>
        \A i \in 1..Len(visited) :
            outcome[i] # "unsaved" =>
                \E r \in Range(token_csv.rows) : r.doc_name = visited[i]

\* ---- C5
C5_DoneOnlyWhenCompleted ==
    /\ runner = "clone" => clone_done(status_csv) \subseteq completed
    /\ runner = "count" => load_processed_repos(output_csv) \subseteq completed
    /\ runner = "download" => download_done(log_csv) \subseteq completed

C5_KilledStaysPending ==
    (/\ runner \in ResumeRunners
     /\ lastEnd = "killed"
     /\ inflight # NoUnit
     /\ inflight \notin succ
     /\ inflight \notin doneAtStart) => inflight \in NextPending

\* C5: a ledger entry that makes a unit done is written only after the
\* unit's clone / scan-and-tokenize / download ran to completion, and a
\* unit in flight when the process is killed is in the pending set of the
\* next run.
C5_NoPartialUnitDone == C5_DoneOnlyWhenCompleted /\ C5_KilledStaysPending

\* ---- C6
Failed(i) == outcome[i] \in {"failed", "timeout", "exception", "unsaved"}

C6_OneAfterAnother ==
    (Running(RunPc) \/ RunPc = "done") =>
        /\ Len(visited) <= Len(Selected)
        /\ visited = SubSeq(Selected, 1, Len(visited))
        /\ \A i \in 1..(Len(visited) - 1) : outcome[i] # "inflight"

C6_FailureNotFatal ==
    (\E i \in 1..Len(visited) : Failed(i)) => RunPc \notin {"crashed", "exit1", "returned"}

C6_RunEnds == RunPc = "done" /\ visited = Selected

\* C6: a failed unit is never fatal to the batch: the selected units are
\* visited in order, one after another, the failure of one of them does not
\* end the run, and the run goes on to its end with every selected unit
\* visited.
C6_SingleFailureNotFatal ==
    /\ [](C6_OneAfterAnother /\ C6_FailureNotFatal)
    /\ ((Running(RunPc) /\ \E i \in 1..Len(visited) : Failed(i)) ~> C6_RunEnds)

C6_Witness ==
    /\ runner = "count"
    /\ t_pc = "done"
    /\ Len(visited) = 2
    /\ outcome[1] = "exception"
    /\ outcome[2] = "row"

\* ---- C7
\* C7: at the end of a run the ledger holds, for every unit the run
\* processed, an entry for its identity that carries its outcome; a unit
\* that raised an exception or whose text could not be saved has an entry
\* with status failed.
C7_OutcomeInLedger ==
    lastEnd = "done" =>
        \A i \in 1..Len(visited) :
            CASE runner = "clone" ->
                   (\A j \in (i + 1)..Len(visited) : visited[j] # visited[i]) =>
                       merged_status(status_csv.rows, visited[i]) = outcome[i]
              [] runner = "count" ->
                   \E r \in Range(output_csv.rows) : r.repo_path = visited[i]
              [] runner = "download" ->
                   \E r \in Range(log_csv.rows) :
                       r.url = visited[i] /\ r.status = outcome[i]
              [] OTHER ->
                   \E r \in Range(token_csv.rows) :
                       /\ r.doc_name = visited[i]
                       /\ r.status = IF outcome[i] = "success" THEN "success" ELSE "failed"

\* ---- C8
\* C8: every batch handed to tokenizer.encode holds at most BATCH_FILE_LIMIT
\* files and at most MAX_BATCH_SIZE_MB plus the size of its last file.
C8_BatchBound ==
    \A k \in 1..Len(encoded) :
        /\ Len(encoded[k].files) <= BATCH_FILE_LIMIT
        /\ encoded[k].size <= MAX_BATCH_SIZE_MB + valid_files[Last(encoded[k].files)].size

\* ---- C9
RECURSIVE TokensOf(_, _)
\* the tokens of the batches of enc that the tokenizer accepted
TokensOf(files, enc) ==
    IF enc = <<>> THEN 0
    ELSE (IF Head(enc).ok THEN encode_len(files, Head(enc).files) ELSE 0)
             + TokensOf(files, Tail(enc))

\* C9: a batch on which tokenizer.encode raises adds 0 to total_tokens, its
\* files are in no later batch, and the repository still gets its row: no
\* exception leaves process_repo.
C9_TokenizerFailureContained ==
    runner = "count" =>
        /\ \A i \in 1..Len(encoded) : \A j \in (i + 1)..Len(encoded) :
               ~encoded[i].ok =>
                   Range(encoded[i].files) \cap Range(encoded[j].files) = {}
        /\ t_pc \in {"files", "leftover", "append"} =>
               chunk.total_tokens = TokensOf(valid_files, encoded)
        /\ \A i \in 1..Len(outcome) : outcome[i] # "exception"

\* ---- C10
RECURSIVE Flatten(_)
Flatten(enc) == IF enc = <<>> THEN <<>> ELSE Head(enc).files \o Flatten(Tail(enc))

RECURSIVE SizeOf(_, _)
SizeOf(files, batch) ==
    IF batch = <<>> THEN 0 ELSE files[Head(batch)].size + SizeOf(files, Tail(batch))

\* the files count_tokens_chunked has gone through
FilesSeen == IF t_pc = "files" THEN f_idx - 1 ELSE Len(valid_files)

AllEncoded == \A k \in 1..Len(encoded) : encoded[k].ok

\* C10: a file whose read raises is in no batch and adds nothing to the
\* batch size; every other file is batched, in order; a read failure alone
\* lets no exception leave count_tokens_chunked, and process_repo appends
\* the row with the tokens of the remaining files.
C10_ReadFailureIsolated ==
    runner = "count" =>
        /\ t_pc \in {"files", "leftover", "append"} =>
             LET batched == Range(chunk.current_batch)
                              \cup UNION {Range(encoded[k].files) : k \in 1..Len(encoded)}
                 readable == SelectSeq([i \in 1..FilesSeen |-> i],
                                       LAMBDA i : i \notin unread)
             IN  /\ batched \cap unread = {}
                 /\ batched = (1..FilesSeen) \ unread
                 /\ chunk.current_batch_size = SizeOf(valid_files, chunk.current_batch)
                 /\ AllEncoded =>
                      /\ Flatten(encoded)
                            \o (IF t_pc = "append" THEN <<>> ELSE chunk.current_batch)
                           = readable
                      /\ chunk.total_tokens = TokensOf(valid_files, encoded)
        /\ (Len(outcome) > 0 /\ Last(outcome) = "exception") => ~AllEncoded
        /\ (t_pc \in {"loop", "done"} /\ Len(outcome) > 0 /\ Last(outcome) = "row"
              /\ AllEncoded) =>
             /\ output_csv.rows # <<>>
             /\ Last(output_csv.rows) =
                  [repo_path |-> Last(visited),
                   number_of_tokens |-> TokensOf(valid_files, encoded),
                   file_count |-> Len(valid_files)]
             /\ Flatten(encoded) =
                  SelectSeq([i \in 1..Len(valid_files) |-> i], LAMBDA i : i \notin unread)

C10_Witness ==
    /\ runner = "count"
    /\ t_pc = "done"
    /\ unread # {}
    /\ Len(outcome) > 0 /\ Last(outcome) = "row"
    /\ AllEncoded
    /\ Len(encoded) >= 2
    /\ Last(output_csv.rows).number_of_tokens > 0

\* ---- C11
NoFailure == unread = {} /\ AllEncoded

Negligible == \A i \in 1..Len(valid_files) : valid_files[i].size = 0

\* C11: when no read and no tokenizer call fails, the batches handed to
\* tokenizer.encode are non-empty consecutive segments of the file list, in
\* order, that hold every file exactly once; with files of negligible size
\* every batch but the last holds exactly BATCH_FILE_LIMIT files and the
\* last at most that many; no empty remainder is encoded.
C11_OrderedPartition ==
    (runner = "count" /\ NoFailure) =>
        /\ \A k \in 1..Len(encoded) : encoded[k].files # <<>>
        /\ t_pc \in {"files", "leftover"} =>
              Flatten(encoded) \o chunk.current_batch = [i \in 1..FilesSeen |-> i]
        /\ (t_pc = "append"
              \/ (t_pc \in {"loop", "done"} /\ Len(outcome) > 0 /\ Last(outcome) = "row")) =>
              /\ Flatten(encoded) = [i \in 1..Len(valid_files) |-> i]
              /\ Negligible =>
                    /\ \A k \in 1..(Len(encoded) - 1) :
                          Len(encoded[k].files) = BATCH_FILE_LIMIT
                    /\ \A k \in 1..Len(encoded) :
                          Len(encoded[k].files) <= BATCH_FILE_LIMIT
                    /\ (Len(encoded) - 1) * BATCH_FILE_LIMIT < Len(valid_files)
                          \/ valid_files = <<>>
                    /\ Len(valid_files) <= Len(encoded) * BATCH_FILE_LIMIT

C11_Witness ==
    /\ runner = "count" /\ NoFailure /\ Negligible
    /\ t_pc = "append"
    /\ Len(valid_files) = BATCH_FILE_LIMIT + 1
    /\ Len(encoded) = 2
    /\ Len(encoded[1].files) = BATCH_FILE_LIMIT
    /\ Len(encoded[2].files) = 1

\* ---- C12
C12_RowStep ==
    /\ runner = "download"
    /\ d_pc = "loop"
    /\ lastEnd' # "killed"
    /\ strip(input_csv.rows[d_idx]) # ""

\* C12: the download runner skips a url as already downloaded if and only
\* if download_log.csv, as the run found it, holds a row for that url with
\* status success, whatever other rows for the url it holds.
C12_SkipIffAnySuccess ==
    [][C12_RowStep =>
          ((skipped_count' = skipped_count + 1)
              <=> strip(input_csv.rows[d_idx]) \in doneAtStart)]_vars

\* ---- C13
OneRowPerUrl(rows) ==
    \A i \in 1..Len(rows) : \A j \in (i + 1)..Len(rows) : rows[i].url # rows[j].url

Others(rows, url) == SelectSeq(rows, LAMBDA r : r.url # url)

C13_RowsAreLatest ==
    runner = "clone" =>
        /\ OneRowPerUrl(status_csv.rows)
        /\ \A r \in Range(status_csv.rows) : r.status = durable[r.url]

\* the frame built by a call: one row for the url, with the new status, and
\* the rows of every other url as the call read them
C13_CallBuilds ==
    (runner = "clone" /\ c_pc = "update" /\ c_pc' = "writing") =>
        /\ Others(c_new', Last(visited)) = Others(status_csv.rows, Last(visited))
        /\ Cardinality({i \in 1..Len(c_new') : c_new'[i].url = Last(visited)}) = 1
        /\ merged_status(c_new', Last(visited)) = c_status

\* a call that returns has written that frame
C13_CallWrites ==
    (runner = "clone" /\ c_pc = "writing" /\ lastEnd' # "killed") =>
        status_csv' = CsvFile(c_new)

\* C13: clone_status.csv holds at most one row per url, each row carries
\* the status of the latest update_status call for its url, and a call for
\* one url leaves the rows of every other url as they were.
C13_LastWriteWins ==
    []C13_RowsAreLatest /\ [][C13_CallBuilds /\ C13_CallWrites]_vars

C13_Witness ==
    /\ runner = "clone" /\ repeat /\ lastEnd = "done"
    /\ Len(visited) >= 1
    /\ merged_status(ledger0.rows, Last(visited)) \notin {"NaN", durable[Last(visited)]}
    /\ Len(status_csv.rows) >= 2
    /\ Len(status_csv.rows) = Len(ledger0.rows)

\* ---- C14
\* the first min(n, |pending|) units of pending
FirstN(pending, n) == SubSeq(pending, 1, Max(0, Min(n, Len(pending))))

C14_CloneSelects(arg) ==
    (clone_main(arg) /\ arg.kind # "bad" /\ c_pc' # "crashed") =>
        c_df' = IF arg.kind = "all" THEN c_pending' ELSE FirstN(c_pending', arg.n)

C14_CountSelects(arg) ==
    (count_main(arg, TRUE) /\ arg.kind # "bad" /\ t_pc' # "crashed") =>
        LET pending == pending_of(base_dir, load_processed_repos(output_csv))
        IN  pending_repos' = IF arg.kind = "all" THEN pending ELSE FirstN(pending, arg.n)

C14_AttemptsSelected ==
    runner \in {"clone", "count"} =>
        /\ (Running(RunPc) \/ RunPc = "done") =>
              /\ Len(visited) <= Len(Selected)
              /\ visited = SubSeq(Selected, 1, Len(visited))
        /\ RunPc = "done" => visited = Selected

\* the selection with the integers below 0 left out
C14_NonNegative ==
    [][\A arg \in Args :
          arg.n >= 0 => (C14_CloneSelects(arg) /\ C14_CountSelects(arg))]_vars

\* C14: with an integer N the clone and the token-count runner select, and
\* attempt in order, exactly the first min(N, |pending|) pending units, and
\* with "all" every pending unit.
C14_LimitSemantics ==
    /\ []C14_AttemptsSelected
    /\ [][\A arg \in Args : C14_CloneSelects(arg) /\ C14_CountSelects(arg)]_vars

\* ---- C15
NonEmptyRows(k) == {i \in 1..k : strip(input_csv.rows[i]) # ""}

C15_EmptyRowStep ==
    (/\ runner = "download"
     /\ d_pc = "loop"
     /\ lastEnd' # "killed"
     /\ strip(input_csv.rows[d_idx]) = "") =>
        /\ UNCHANGED <<log_csv, download_log, visited, outcome, success_count,
                       skipped_count, failed_count>>
        /\ d_pc' \in {"loop", "done"}

C15_CountsAddUp ==
    (runner = "download" /\ input_csv.exists) =>
        /\ d_pc = "loop" =>
              success_count + skipped_count + failed_count
                  = Cardinality(NonEmptyRows(d_idx - 1))
        /\ d_pc = "done" =>
              success_count + skipped_count + failed_count
                  = Cardinality(NonEmptyRows(Len(input_csv.rows)))

\* C15: a row whose url is empty after stripping causes no ledger lookup,
\* no download, no ledger write and no change of a counter, the other rows
\* are processed, and at the end of the run the three counters add up to
\* the number of rows with a non-empty url.
C15_EmptyUrlSkipped == []C15_CountsAddUp /\ [][C15_EmptyRowStep]_vars

C15_Witness ==
    /\ runner = "download"
    /\ d_pc = "done"
    /\ Len(input_csv.rows) = 2
    /\ strip(input_csv.rows[1]) = ""
    /\ success_count = 1
    /\ Len(log_csv.rows) = 1

\* ---- C16
\* C16: a run of the clone or the token-count runner whose argument is
\* neither an integer nor "all" ends with a non-zero exit status (sys.exit(1)
\* or an uncaught exception) and processes no unit.
C16_BadArgumentFatal ==
    (runner \in {"clone", "count"} /\ limit = "bad") =>
        /\ RunPc \in {"exit1", "crashed"}
        /\ visited = <<>>

\* ---- C17
ValidUnits ==
    {strip(r.url) : r \in {x \in Range(manifest.rows) :
                             lower(x.type) = "github" /\ startswith_github(strip(x.url))}}

\* an uninterrupted run with "all" has ended and none of its git clone
\* attempts failed
C17_CleanRunEnded ==
    /\ runner = "clone"
    /\ lastEnd = "done"
    /\ limit = "all"
    /\ \A i \in 1..Len(outcome) : outcome[i] \notin {"failed", "timeout"}

\* C17: once a run was killed with a unit in flight, a later uninterrupted
\* run with "all" whose git clone attempts all succeed leaves every valid
\* github unit of the manifest with status success in clone_status.csv.
C17_ResumeAfterKill ==
    (C17_CleanRunEnded /\ inflight # "none") =>
        \A u \in ValidUnits : merged_status(status_csv.rows, u) = "success"

\* ---- C18
\* a run starts and its global setup fails: the manifest is missing (clone,
\* download) or the tokenizer cannot be loaded (token count, PDF pipeline)
C18_SetupFails ==
    \/ ~manifest.exists /\ \E arg \in Args : clone_main(arg)
    \/ ~input_csv.exists /\ process_csv
    \/ \E arg \in Args : count_main(arg, FALSE)
    \/ process_pdfs(FALSE)

\* C18: a run whose global setup fails ends there: no unit is attempted and
\* no ledger row is written.
C18_SetupFailureAborts ==
    [][C18_SetupFails =>
          /\ ~Running(RunPc')
          /\ visited' = <<>>
          /\ Ledger' = Ledger]_vars

C18_Witness ==
    /\ runner = "count"
    /\ t_pc = "crashed"
    /\ base_dir # <<>>
    /\ visited = <<>>
    /\ output_csv = NoFile

\* ---- C19
\* the files the stated decision order accepts: not in the deny set, no
\* hidden path segment, a size that can be read and is within
\* MAX_FILE_SIZE_MB, and then in the allow set or sniffed as text
Eligible(f) ==
    /\ f.ext # "deny"
    /\ ~f.hidden
    /\ f.stat_ok
    /\ f.size <= MAX_FILE_SIZE_MB
    /\ (f.ext = "allow" \/ f.mime_text)

\* deny-set, hidden-path and size rejection win over the allow set
C19_RejectionWins ==
    \A i \in 1..Len(valid_files) :
        /\ valid_files[i].ext # "deny"
        /\ ~valid_files[i].hidden
        /\ valid_files[i].size <= MAX_FILE_SIZE_MB

\* every combination of extension class, hidden segment, size, readable
\* size and MIME guess
AllPaths ==
    [name : {"p"}, ext : {"deny", "allow", "other"}, hidden : BOOLEAN,
     size : 0..(MAX_FILE_SIZE_MB + 1), stat_ok : BOOLEAN, mime_text : BOOLEAN]

C19_DecisionOrder ==
    \A f \in AllPaths :
        /\ (is_valid_file(f) = "True") <=> Eligible(f)
        /\ (f.ext = "deny" \/ f.hidden) => is_valid_file(f) = "False"
        /\ (f.stat_ok /\ f.size > MAX_FILE_SIZE_MB) => is_valid_file(f) = "False"
        /\ collect_valid_files(<<f>>) = IF Eligible(f) THEN <<f>> ELSE <<>>

\* C19: collect_valid_files returns, in walk order, exactly the files that
\* the decision order deny set, hidden segment, size, allow set, MIME sniff
\* accepts, and skips a file whose check raises.
C19_FilterOrder ==
    /\ [](C19_RejectionWins /\ C19_DecisionOrder)
    /\ [][(runner = "count" /\ t_pc = "loop" /\ t_pc' \in {"files", "append"}) =>
             valid_files' = SelectSeq(walked', Eligible)]_vars

C19_Witness ==
    /\ runner = "count"
    /\ t_pc = "files"
    /\ Len(walked) = 3
    /\ walked[1].name = "a.py" /\ walked[1].size = MAX_FILE_SIZE_MB
    /\ walked[2].name = "b.bin"
    /\ walked[3].name = ".git/config"
    /\ valid_files = <<walked[1]>>

\* ---- C20
\* C20: after any sequence of runs of the token-count runner, with any
\* limits and with kills between or during units, no two rows of
\* repo_token_count.csv carry the same repo_path.
C20_NoDoubleCounting ==
    runner = "count" =>
        \A i, j \in 1..Len(output_csv.rows) :
            output_csv.rows[i].repo_path = output_csv.rows[j].repo_path => i = j

\* ---- C21
\* C21: once clone_status.csv records success for a url, no step of the
\* clone runner, in the same run or a later one, leaves that url with a
\* row of another status (failed, timeout, invalid or exists).
C21_SuccessStable ==
    [][(runner = "clone" /\ c_pc = "update" /\ c_pc' = "writing") =>
         \A u \in Urls :
            merged_status(status_csv.rows, u) = "success" =>
                merged_status(c_new', u) = "success"]_vars

\* ---- C22
\* the units of a selection are all urls main rejects as invalid: whatever
\* the run, each of them ends with status invalid
CannotSucceed(sel) == \A i \in 1..Len(sel) : ~startswith_github(strip(sel[i].url))

\* a pending unit outside the selection that no run has attempted
Unattempted(pending, sel, seen) ==
    \E i \in (Len(sel) + 1)..Len(pending) : strip(pending[i].url) \notin Range(seen)

\* the second run, with an integer limit of at least 1, after a first run
\* that ran to its end with an integer limit
SecondRun(arg) ==
    /\ runner = "clone" /\ runs = 1 /\ lastEnd = "done" /\ limit = "int"
    /\ clone_main(arg)
    /\ arg.kind = "int" /\ arg.n >= 1
    /\ Len(c_df) = Min(arg.n, Len(c_pending))

\* a run that selected only units that cannot succeed is repeated as it
\* was by the next run with the same limit
C22_RunRepeats ==
    [][\A arg \in Args :
          (SecondRun(arg) /\ CannotSucceed(c_df) /\ visited = [i \in 1..Len(c_df) |-> strip(c_df[i].url)]) =>
              (c_pending' = c_pending /\ c_df' = c_df)]_vars

\* C22: invoked again and again with the same integer limit N >= 1, the
\* clone runner eventually attempts every github unit of the manifest, and
\* units that cannot succeed do not keep later units from being selected: no
\* run finds the pending list of the run before it, selects the same units,
\* none of which can succeed, and leaves outside its selection a unit that
\* was never attempted.
C22_ProgressUnderLimit ==
    [][\A arg \in Args :
          SecondRun(arg) =>
              ~(/\ c_pending' = c_pending
                /\ c_df' = c_df
                /\ CannotSucceed(c_df')
                /\ Unattempted(c_pending', c_df', visited))]_vars
====
